---------------------------- MODULE Spec2Model ----------------------------
(***************************************************************************)
(* Model of src/database_frontend.py: the Streamlit front end that turns   *)
(* a natural-language question into SQL (dataBase) over an SSH tunnel,     *)
(* with one corrective retry.                                              *)
(*                                                                         *)
(* Python strings are modelled as sequences of one-character strings, so   *)
(* that strip, replace, endswith, the in test and the regular expression   *)
(* are computed character by character as the interpreter computes them.   *)
(***************************************************************************)
EXTENDS Integers, Sequences, FiniteSets

(***************************************************************************)
(* Bounds of the model (not program constants).                            *)
(***************************************************************************)
\* longest run of newlines put around the body of a generated model answer
MaxPad == 1

(***************************************************************************)
(* String literals of the source.                                          *)
(***************************************************************************)
\* the backtick character (the lexer of TLA+ cannot read it inside a string)
BT == "backtick"
\* the cross-mark emoji that opens the top-level error message
CrossMark == "cross mark"
FenceOpen == <<BT,BT,BT,"s","q","l">>
Ticks3 == <<BT,BT,BT>>
SqlToken == <<"s","q","l">>
NeedleColumn == <<"U","n","k","n","o","w","n"," ","c","o","l","u","m","n">>
NeedleExist == <<"d","o","e","s","n","'","t"," ","e","x","i","s","t">>
Sentinel == <<"A","l","l"," ","d","a","t","a","b","a","s","e"," ","t","a","b","l","e","s">>
JoinSep == <<","," ">>
ShowTablesSql == <<"S","H","O","W"," ","T","A","B","L","E","S",";">>
ExecErrPrefix == <<"S","Q","L"," ","E","x","e","c","u","t","i","o","n"," ","E","r","r","o","r",":"," ">>
TopErrPrefix == <<CrossMark," ","E","r","r","o","r",":"," ">>
FollowUpA == <<"T","h","e"," ","p","r","e","v","i","o","u","s"," ","q","u","e","r","y"," ","f","a","i","l","e","d"," ","w","i","t","h"," ","e","r","r","o","r",":"," ">>
FollowUpB == <<"."," ","R","e","w","r","i","t","e"," ","t","h","e"," ","S","Q","L"," ","c","o","r","r","e","c","t","l","y"," ","u","s","i","n","g"," ","o","n","l","y"," ","e","x","i","s","t","i","n","g"," ","c","o","l","u","m","n","s"," ","f","r","o","m"," ","t","h","i","s"," ","s","c","h","e","m","a",":","\n">>
FollowUpC == <<"\n","Q","u","e","s","t","i","o","n",":"," ">>
TunnelUpText == <<"S","S","H"," ","t","u","n","n","e","l"," ","e","s","t","a","b","l","i","s","h","e","d">>
TunnelClosedText == <<"S","S","H"," ","t","u","n","n","e","l"," ","c","l","o","s","e","d",".">>
WarnText == <<"P","l","e","a","s","e"," ","e","n","t","e","r"," ","a"," ","q","u","e","s","t","i","o","n",".">>
DoneText == <<"Q","u","e","r","y"," ","e","x","e","c","u","t","e","d"," ","s","u","c","c","e","s","s","f","u","l","l","y","!">>
Upper == <<"A","B","C","D","E","F","G","H","I","J","K","L","M","N","O","P","Q","R","S","T","U","V","W","X","Y","Z">>
LowerAlpha == <<"a","b","c","d","e","f","g","h","i","j","k","l","m","n","o","p","q","r","s","t","u","v","w","x","y","z">>
Semi == ";"
Whitespace == {" ", "\n", "\t"}
\* re.DOTALL is passed at both re.search calls: the dot also matches a newline
DOTALL == TRUE

(***************************************************************************)
(* Python string primitives used by dataBase.                              *)
(***************************************************************************)
Min(S) == CHOOSE x \in S : \A y \in S : x <= y
Max(S) == CHOOSE x \in S : \A y \in S : x >= y

\* str.lower on one character (ASCII letters)
lower(c) ==
  IF \E i \in 1..Len(Upper) : Upper[i] = c
  THEN LowerAlpha[CHOOSE i \in 1..Len(Upper) : Upper[i] = c]
  ELSE c

\* does pat occur in s at (1-based) position i
startswith(s, i, pat) ==
  /\ i >= 1
  /\ i + Len(pat) - 1 <= Len(s)
  /\ \A k \in 1..Len(pat) : s[i + k - 1] = pat[k]

\* the same comparison under re.IGNORECASE
startswithIgnoreCase(s, i, pat) ==
  /\ i >= 1
  /\ i + Len(pat) - 1 <= Len(s)
  /\ \A k \in 1..Len(pat) : lower(s[i + k - 1]) = lower(pat[k])

\* s.endswith(c) for a one-character suffix
endswith(s, c) == Len(s) > 0 /\ s[Len(s)] = c

\* pat in s
contains(s, pat) == \E i \in 1..(Len(s) - Len(pat) + 1) : startswith(s, i, pat)

RECURSIVE lstrip(_)
lstrip(s) ==
  IF s # <<>> /\ Head(s) \in Whitespace THEN lstrip(Tail(s)) ELSE s

RECURSIVE rstrip(_)
rstrip(s) ==
  IF s # <<>> /\ s[Len(s)] \in Whitespace
  THEN rstrip(SubSeq(s, 1, Len(s) - 1))
  ELSE s

\* str.strip()
strip(s) == rstrip(lstrip(s))

\* str.replace(old, ""): one left-to-right pass over non-overlapping matches
RECURSIVE replace(_, _)
replace(s, old) ==
  IF s = <<>> THEN <<>>
  ELSE IF startswith(s, 1, old)
       THEN replace(SubSeq(s, Len(old) + 1, Len(s)), old)
       ELSE <<Head(s)>> \o replace(Tail(s), old)

(***************************************************************************)
(* re.search(FENCE sql \s* (.*?) \s* FENCE, text, DOTALL | IGNORECASE),    *)
(* FENCE being three backticks,                                            *)
(* computed as the backtracking matcher computes it: leftmost start, then  *)
(* the greedy \s* as long as possible, the lazy group as short as          *)
(* possible, the second greedy \s*, and the closing fence.                 *)
(***************************************************************************)
\* length of the run of whitespace that starts at position p
WsRun(s, p) ==
  Max({n \in 0..(Len(s) - p + 1) : \A k \in 0..(n - 1) : s[p + k] \in Whitespace})

\* the dot of the pattern
Dot(c) == DOTALL \/ c # "\n"

\* \s* FENCE matches at position p
TailMatches(s, p) == \E w \in 0..WsRun(s, p) : startswith(s, p + w, Ticks3)

\* (.*?) \s* FENCE matches at position p with a group of k characters
GroupMatches(s, p, k) ==
  /\ p + k - 1 <= Len(s)
  /\ \A j \in 0..(k - 1) : Dot(s[p + j])
  /\ TailMatches(s, p + k)

\* MatchAt without re.IGNORECASE
MatchAtCaseSensitive(s, i) ==
  /\ startswith(s, i, FenceOpen)
  /\ \E w \in 0..WsRun(s, i + Len(FenceOpen)) :
       \E k \in 0..Len(s) : GroupMatches(s, i + Len(FenceOpen) + w, k)

\* the whole pattern matches starting at position i
MatchAt(s, i) ==
  /\ startswithIgnoreCase(s, i, FenceOpen)
  /\ \E w \in 0..WsRun(s, i + Len(FenceOpen)) :
       \E k \in 0..Len(s) : GroupMatches(s, i + Len(FenceOpen) + w, k)

\* group(1) of the match that starts at position i
GroupAt(s, i) ==
  LET p == i + Len(FenceOpen)
      w == Max({v \in 0..WsRun(s, p) : \E k \in 0..Len(s) : GroupMatches(s, p + v, k)})
      k == Min({n \in 0..Len(s) : GroupMatches(s, p + w, n)})
  IN  SubSeq(s, p + w, p + w + k - 1)

re_search(s) ==
  IF \E i \in 1..Len(s) : MatchAt(s, i)
  THEN [found |-> TRUE, group1 |-> GroupAt(s, Min({i \in 1..Len(s) : MatchAt(s, i)}))]
  ELSE [found |-> FALSE, group1 |-> <<>>]

\* Terminate without the test: the terminator is always appended
TerminateAlways(s) == Append(s, Semi)

\* Terminate with the test inverted
TerminateInverted(s) == IF endswith(s, Semi) THEN Append(s, Semi) ELSE s

\* if not sql_query.endswith(";"): sql_query += ";"
Terminate(s) == IF endswith(s, Semi) THEN s ELSE Append(s, Semi)

\* ExtractInitial without the removal of the sql token
ExtractInitialKeepsSql(res_text) ==
  LET match == re_search(res_text)
      sql0 == IF match.found THEN strip(match.group1) ELSE strip(res_text)
      sql1 == strip(replace(sql0, Ticks3))
  IN  Terminate(sql1)

\* lines 86-93: the executable query of the initial attempt
ExtractInitial(res_text) ==
  LET match == re_search(res_text)
      sql0 == IF match.found THEN strip(match.group1) ELSE strip(res_text)
      sql1 == strip(replace(replace(sql0, Ticks3), SqlToken))
  IN  Terminate(sql1)

\* lines 116-122: the executable query of the retry attempt
ExtractRetry(retry_text) ==
  LET match == re_search(retry_text)
      sql0 == IF match.found THEN strip(match.group1) ELSE strip(retry_text)
  IN  Terminate(sql0)

(***************************************************************************)
(* The environment: what the SSH library, the database and the language    *)
(* model can answer.                                                       *)
(***************************************************************************)
ErrUnknownColumn == <<"U","n","k","n","o","w","n"," ","c","o","l","u","m","n"," ","'","c","u","s","t","_","n","a","m","e","'"," ","i","n"," ","'","f","i","e","l","d"," ","l","i","s","t","'">>
ErrNoTable == <<"T","a","b","l","e"," ","'","y","'"," ","d","o","e","s","n","'","t"," ","e","x","i","s","t">>
ErrLowerColumn == <<"u","n","k","n","o","w","n"," ","c","o","l","u","m","n"," ","'","x","'">>
ErrSyntax == <<"s","y","n","t","a","x"," ","e","r","r","o","r">>
ErrNoCredentials == <<"N","o"," ","p","a","s","s","w","o","r","d"," ","o","r"," ","p","u","b","l","i","c"," ","k","e","y"," ","a","v","a","i","l","a","b","l","e","!">>
ErrGateway == <<"C","o","u","l","d"," ","n","o","t"," ","e","s","t","a","b","l","i","s","h"," ","s","e","s","s","i","o","n"," ","t","o"," ","S","S","H"," ","g","a","t","e","w","a","y">>
ErrAccess == <<"A","c","c","e","s","s"," ","d","e","n","i","e","d">>
ErrModel == <<"m","o","d","e","l"," ","A","P","I"," ","e","r","r","o","r">>
ScenarioFenced == <<BT,BT,BT,"s","q","l","\n","S","E","L","E","C","T"," ","*"," ","F","R","O","M"," ","c","u","s","t","o","m","e","r","s"," ","W","H","E","R","E"," ","n","a","m","e"," ","L","I","K","E"," ","'","%","J","o","h","n","%","'","\n",BT,BT,BT>>
ScenarioFencedSql == <<"S","E","L","E","C","T"," ","*"," ","F","R","O","M"," ","c","u","s","t","o","m","e","r","s"," ","W","H","E","R","E"," ","n","a","m","e"," ","L","I","K","E"," ","'","%","J","o","h","n","%","'",";">>
ScenarioPlain == <<"S","E","L","E","C","T"," ","*"," ","F","R","O","M"," ","o","r","d","e","r","s">>
ScenarioPlainSql == <<"S","E","L","E","C","T"," ","*"," ","F","R","O","M"," ","o","r","d","e","r","s",";">>
BareFence == <<BT,BT,BT,"\n","S","E","L","E","C","T"," ","1","\n",BT,BT,BT>>
LongFence == <<BT,BT,BT,"s","q","l"," ","a",BT,BT,BT,BT>>
ProseFenced == <<"H","e","r","e"," ","i","s"," ","t","h","e"," ","q","u","e","r","y",":","\n",BT,BT,BT,"S","q","l","\n","S","E","L","E","C","T"," ","s","q","l","_","i","d"," ","F","R","O","M"," ","t","\n",BT,BT,BT,"\n","D","o","n","e",".">>

\* the keys read by os.getenv at lines 16-22 and 156
RequiredKeys ==
  {"SSH_HOST", "SSH_USER", "SSH_PASSWORD", "DB_USER", "DB_PASSWORD", "DB_NAME",
   "OPENAI_API_KEY"}
\* process environments: complete, or with one key absent
Environments ==
  {RequiredKeys, RequiredKeys \ {"SSH_PASSWORD"}, RequiredKeys \ {"DB_NAME"},
   RequiredKeys \ {"OPENAI_API_KEY"}}
ErrApiKey == <<"T","h","e"," ","a","p","i","_","k","e","y"," ","c","l","i","e","n","t"," ","o","p","t","i","o","n"," ","m","u","s","t"," ","b","e"," ","s","e","t">>
ErrOpenTunnels == <<"A","n"," ","e","r","r","o","r"," ","o","c","c","u","r","r","e","d"," ","w","h","i","l","e"," ","o","p","e","n","i","n","g"," ","t","u","n","n","e","l","s",".">>

\* messages db.run can fail with
ExecErrors == {ErrUnknownColumn, ErrNoTable, ErrLowerColumn, ErrSyntax}

\* what db.run returns for a query that succeeds ("" when there are no rows)
RowSets == {<<>>, <<"[","(","1",",",")","]">>}
Schemas == {<<"c","u","s","t","o","m","e","r","s","(","i","d",","," ","n","a","m","e",")">>, <<"o","r","d","e","r","s","(","i","d",")">>}
TableData == {<<"a","b">>}
Questions == {<<>>, <<" ">>, <<"l","i","s","t"," ","a","l","l"," ","c","u","s","t","o","m","e","r","s"," ","n","a","m","e","d"," ","J","o","h","n">>}

\* answers of the language model: an optional opening fence, a body padded
\* with newlines, an optional closing fence; and the scenarios of the
\* documentation
PadOf(n) == [i \in 1..n |-> "\n"]
Opens == {<<>>, FenceOpen, <<BT, BT, BT, "S", "Q", "L">>, Ticks3}
Closes == {<<>>, Ticks3}
Bodies == {<<>>, <<"s","q","l"," ","a",";">>, <<"a",";",";">>, <<"s","q","l","_","i","d">>, <<"s","s","q","l","q","l">>, <<BT,"s","q","l",BT,BT>>, <<"a"," ","\n"," ","b">>}
RetryBodies == {<<"a",";",";">>, <<"s","q","l","_","i","d">>}
RawTexts ==
  {o \o PadOf(n) \o b \o PadOf(n) \o c :
     o \in Opens, n \in 0..MaxPad, b \in Bodies, c \in Closes}
  \cup {ScenarioFenced, ScenarioPlain, ProseFenced, LongFence}
RetryTexts ==
  {o \o PadOf(MaxPad) \o b \o PadOf(MaxPad) \o c :
     o \in {<<>>, FenceOpen, Ticks3}, b \in RetryBodies, c \in {Ticks3}}
  \cup {ScenarioPlain, BareFence}

(***************************************************************************)
(* State.                                                                  *)
(***************************************************************************)
VARIABLES
  pc,            \* position of the script / of dataBase
  question,      \* st.text_input value handed to dataBase
  server,        \* local server of dataBase: None or the forwarder object
  tunnel_up,     \* the forwarder is started and holds the local port
  schema,        \* local schema
  top_k_tables,  \* local top_k_tables
  res_text,      \* local res_text
  sql_query,     \* local sql_query
  error_msg,     \* local error_msg
  retry_text,    \* local retry_text
  retry_sql,     \* local retry_sql
  result,        \* value dataBase returned to the script
  exc,           \* exception in flight inside dataBase
  escaped,       \* an exception left dataBase
  ui,            \* Streamlit elements emitted in this script run
  calls,         \* calls made to the tunnel, the database and the chain
  environ,       \* keys the process environment defines (lines 14-22, 156)
  peer_up        \* another session running this script holds the local port

vars == <<pc, question, server, tunnel_up, schema, top_k_tables, res_text,
          sql_query, error_msg, retry_text, retry_sql, result, exc, escaped,
          ui, calls, environ, peer_up>>

None == [none |-> TRUE, value |-> <<>>]
Value(v) == [none |-> FALSE, value |-> v]
NoExc == [raised |-> FALSE, msg |-> <<>>]
Exc(m) == [raised |-> TRUE, msg |-> m]

\* one Streamlit element
st(kind, text) == [kind |-> kind, text |-> text]

\* one call on an external collaborator, with the tunnel state it ran under
Call(op, arg, ok, out) ==
  [op |-> op, arg |-> arg, ok |-> ok, out |-> out, up |-> tunnel_up]

\* ", ".join([t[0] for t in table_data]) over the text db.run returned
RECURSIVE join(_)
join(table_data) ==
  IF Len(table_data) <= 1 THEN table_data
  ELSE <<Head(table_data)>> \o JoinSep \o join(Tail(table_data))

\* str.lower on a string
lowered(s) == [i \in 1..Len(s) |-> lower(s[i])]

\* Recoverable with the two substrings matched whatever their case
RecoverableIgnoreCase(msg) ==
  \/ contains(lowered(msg), lowered(NeedleColumn))
  \/ contains(lowered(msg), lowered(NeedleExist))

\* the condition of line 105
Recoverable(msg) == contains(msg, NeedleColumn) \/ contains(msg, NeedleExist)

\* follow_up with the question put before the schema
follow_upQuestionFirst(msg, sch, q) ==
  FollowUpA \o msg \o FollowUpB \o q \o FollowUpC \o sch

\* the f-string of lines 106-110
follow_up(msg, sch, q) == FollowUpA \o msg \o FollowUpB \o sch \o FollowUpC \o q

\* the request handed to chain.invoke
Request(q, sch, top_k) == [question |-> q, table_info |-> sch, top_k |-> top_k]

\* truthiness of the value dataBase returned (line 160)
Truthy(r) == ~r.none /\ r.value # <<>>

Init ==
  /\ pc = "idle"
  /\ question = <<>>
  /\ server = "None"
  /\ tunnel_up = FALSE
  /\ schema = <<>>
  /\ top_k_tables = <<>>
  /\ res_text = <<>>
  /\ sql_query = <<>>
  /\ error_msg = <<>>
  /\ retry_text = <<>>
  /\ retry_sql = <<>>
  /\ result = None
  /\ exc = NoExc
  /\ escaped = FALSE
  /\ ui = <<>>
  /\ calls = <<>>
  /\ environ \in Environments
  /\ peer_up = FALSE

\* os.getenv(key): the value, or None when the key is not defined
getenv(key) == IF key \in environ THEN "value" ELSE "None"

\* an exception raised inside the outer try of dataBase
Raise(m) == exc' = Exc(m) /\ pc' = "except"

(***************************************************************************)
(* The script, lines 147-162: every click of the button reruns it.         *)
(***************************************************************************)
\* RunQuery that compares the question with "" without stripping it
RunQueryNoStrip ==
  /\ pc = "idle"
  /\ \E q \in Questions :
       /\ question' = q
       /\ IF q = <<>>
          THEN /\ ui' = <<st("warning", WarnText)>>
               /\ pc' = "idle"
          ELSE IF getenv("OPENAI_API_KEY") = "None"
          THEN \* ChatOpenAI(...) raises and the script run ends there
               /\ ui' = <<st("exception", ErrApiKey)>>
               /\ pc' = "idle"
          ELSE /\ ui' = <<>>
               /\ pc' = "construct"
  /\ server' = "None"
  /\ tunnel_up' = FALSE
  /\ schema' = <<>>
  /\ top_k_tables' = <<>>
  /\ res_text' = <<>>
  /\ sql_query' = <<>>
  /\ error_msg' = <<>>
  /\ retry_text' = <<>>
  /\ retry_sql' = <<>>
  /\ result' = None
  /\ exc' = NoExc
  /\ escaped' = FALSE
  /\ calls' = <<>>
  /\ UNCHANGED <<environ, peer_up>>

\* lines 149-158
RunQuery ==
  /\ pc = "idle"
  /\ \E q \in Questions :
       /\ question' = q
       /\ IF strip(q) = <<>>
          THEN /\ ui' = <<st("warning", WarnText)>>
               /\ pc' = "idle"
          ELSE IF getenv("OPENAI_API_KEY") = "None"
          THEN \* ChatOpenAI(...) raises and the script run ends there
               /\ ui' = <<st("exception", ErrApiKey)>>
               /\ pc' = "idle"
          ELSE /\ ui' = <<>>
               /\ pc' = "construct"
  /\ server' = "None"
  /\ tunnel_up' = FALSE
  /\ schema' = <<>>
  /\ top_k_tables' = <<>>
  /\ res_text' = <<>>
  /\ sql_query' = <<>>
  /\ error_msg' = <<>>
  /\ retry_text' = <<>>
  /\ retry_sql' = <<>>
  /\ result' = None
  /\ exc' = NoExc
  /\ escaped' = FALSE
  /\ calls' = <<>>
  /\ UNCHANGED <<environ, peer_up>>

\* lines 160-162
Present ==
  /\ pc = "returned"
  /\ ui' = IF Truthy(result)
           THEN ui \o <<st("success", DoneText), st("write", result.value)>>
           ELSE ui
  /\ pc' = "idle"
  /\ UNCHANGED <<question, server, tunnel_up, schema, top_k_tables, res_text,
                 sql_query, error_msg, retry_text, retry_sql, result, exc,
                 escaped, calls>>
  /\ UNCHANGED <<environ, peer_up>>

(***************************************************************************)
(* dataBase, lines 51-139.                                                 *)
(***************************************************************************)
\* lines 54-62: SSHTunnelForwarder(...) returns the object or raises
Construct ==
  /\ pc = "construct"
  /\ \/ /\ getenv("SSH_PASSWORD") # "None"
        /\ server' = "forwarder"
        /\ pc' = "start"
        /\ UNCHANGED exc
     \/ /\ Raise(ErrNoCredentials)
        /\ UNCHANGED server
  /\ UNCHANGED <<question, tunnel_up, schema, top_k_tables, res_text,
                 sql_query, error_msg, retry_text, retry_sql, result,
                 escaped, ui, calls>>
  /\ UNCHANGED <<environ, peer_up>>

\* Start that binds the local port even while the other session holds it
StartIgnoresPort ==
  /\ pc = "start"
  /\ \/ /\ tunnel_up' = TRUE
        /\ calls' = Append(calls, Call("start", <<>>, TRUE, <<>>))
        /\ ui' = Append(ui, st("success", TunnelUpText))
        /\ pc' = "schema"
        /\ UNCHANGED exc
     \/ /\ calls' = Append(calls, Call("start", <<>>, FALSE, ErrGateway))
        /\ Raise(ErrGateway)
        /\ UNCHANGED <<tunnel_up, ui>>
  /\ UNCHANGED <<question, server, schema, top_k_tables, res_text, sql_query,
                 error_msg, retry_text, retry_sql, result, escaped>>
  /\ UNCHANGED <<environ, peer_up>>

\* lines 63-64: server.start()
Start ==
  /\ pc = "start"
  /\ \/ /\ ~peer_up
        /\ tunnel_up' = TRUE
        /\ calls' = Append(calls, Call("start", <<>>, TRUE, <<>>))
        /\ ui' = Append(ui, st("success", TunnelUpText))
        /\ pc' = "schema"
        /\ UNCHANGED exc
     \/ \E e \in {ErrGateway} \cup (IF peer_up THEN {ErrOpenTunnels} ELSE {}) :
          /\ calls' = Append(calls, Call("start", <<>>, FALSE, e))
          /\ Raise(e)
          /\ UNCHANGED <<tunnel_up, ui>>
  /\ UNCHANGED <<question, server, schema, top_k_tables, res_text, sql_query,
                 error_msg, retry_text, retry_sql, result, escaped>>
  /\ UNCHANGED <<environ, peer_up>>

\* lines 66-70: SQLDatabase.from_uri(...) and db.get_table_info()
FetchSchema ==
  /\ pc = "schema"
  /\ \/ \E s \in Schemas :
          /\ \A key \in {"DB_USER", "DB_PASSWORD", "DB_NAME"} : getenv(key) # "None"
          /\ schema' = s
          /\ calls' = Append(calls, Call("get_table_info", <<>>, TRUE, s))
          /\ pc' = "tables"
          /\ UNCHANGED exc
     \/ /\ calls' = Append(calls, Call("get_table_info", <<>>, FALSE, ErrAccess))
        /\ Raise(ErrAccess)
        /\ UNCHANGED schema
  /\ UNCHANGED <<question, server, tunnel_up, top_k_tables, res_text,
                 sql_query, error_msg, retry_text, retry_sql, result,
                 escaped, ui>>
  /\ UNCHANGED <<environ, peer_up>>

\* ShowTables without the inner handler: a failed listing ends the request
ShowTablesAborts ==
  /\ pc = "tables"
  /\ \/ \E table_data \in TableData :
          /\ top_k_tables' = join(table_data)
          /\ calls' = Append(calls, Call("show_tables", ShowTablesSql, TRUE, table_data))
          /\ pc' = "synth"
          /\ UNCHANGED exc
     \/ /\ calls' = Append(calls, Call("show_tables", ShowTablesSql, FALSE, ErrAccess))
        /\ Raise(ErrAccess)
        /\ UNCHANGED top_k_tables
  /\ UNCHANGED <<question, server, tunnel_up, schema, res_text, sql_query,
                 error_msg, retry_text, retry_sql, result, escaped, ui>>
  /\ UNCHANGED <<environ, peer_up>>

\* lines 71-76: the table listing, with its own handler
ShowTables ==
  /\ pc = "tables"
  /\ \/ \E table_data \in TableData :
          /\ top_k_tables' = join(table_data)
          /\ calls' = Append(calls, Call("show_tables", ShowTablesSql, TRUE, table_data))
     \/ /\ top_k_tables' = Sentinel
        /\ calls' = Append(calls, Call("show_tables", ShowTablesSql, FALSE, ErrAccess))
  /\ pc' = "synth"
  /\ UNCHANGED <<question, server, tunnel_up, schema, res_text, sql_query,
                 error_msg, retry_text, retry_sql, result, exc, escaped, ui>>
  /\ UNCHANGED <<environ, peer_up>>

\* lines 78-95: first synthesis and the extraction of the query
Synthesize ==
  /\ pc = "synth"
  /\ LET req == Request(question, schema, top_k_tables) IN
     \/ \E res \in RawTexts :
          /\ res_text' = res
          /\ sql_query' = ExtractInitial(res)
          /\ calls' = Append(calls, Call("invoke", req, TRUE, res))
          /\ ui' = Append(ui, st("code", ExtractInitial(res)))
          /\ pc' = "execute"
          /\ UNCHANGED exc
     \/ /\ calls' = Append(calls, Call("invoke", req, FALSE, ErrModel))
        /\ Raise(ErrModel)
        /\ UNCHANGED <<res_text, sql_query, ui>>
  /\ UNCHANGED <<question, server, tunnel_up, schema, top_k_tables,
                 error_msg, retry_text, retry_sql, result, escaped>>
  /\ UNCHANGED <<environ, peer_up>>

\* Execute whose inner handler stops the forwarder before it retries
ExecuteStopsBeforeRetry ==
  /\ pc = "execute"
  /\ \/ \E rows \in RowSets :
          /\ calls' = Append(calls, Call("run", sql_query, TRUE, rows))
          /\ result' = Value(rows)
          /\ pc' = "finally"
          /\ UNCHANGED <<error_msg, exc, ui, tunnel_up>>
     \/ \E e \in ExecErrors :
          /\ calls' = Append(calls, Call("run", sql_query, FALSE, e))
          /\ tunnel_up' = FALSE
          /\ error_msg' = e
          /\ ui' = Append(ui, st("error", ExecErrPrefix \o e))
          /\ IF Recoverable(e)
             THEN pc' = "retry" /\ UNCHANGED exc
             ELSE Raise(e)
          /\ UNCHANGED result
  /\ UNCHANGED <<question, server, schema, top_k_tables, res_text,
                 sql_query, retry_text, retry_sql, escaped>>
  /\ UNCHANGED <<environ, peer_up>>

\* Execute whose return leaves dataBase without running the finally block
ExecuteReturnsPastFinally ==
  /\ pc = "execute"
  /\ \/ \E rows \in RowSets :
          /\ calls' = Append(calls, Call("run", sql_query, TRUE, rows))
          /\ result' = Value(rows)
          /\ pc' = "returned"
          /\ UNCHANGED <<error_msg, exc, ui>>
     \/ \E e \in ExecErrors :
          /\ calls' = Append(calls, Call("run", sql_query, FALSE, e))
          /\ error_msg' = e
          /\ ui' = Append(ui, st("error", ExecErrPrefix \o e))
          /\ IF Recoverable(e)
             THEN pc' = "retry" /\ UNCHANGED exc
             ELSE Raise(e)
          /\ UNCHANGED result
  /\ UNCHANGED <<question, server, tunnel_up, schema, top_k_tables, res_text,
                 sql_query, retry_text, retry_sql, escaped>>
  /\ UNCHANGED <<environ, peer_up>>

\* lines 97-105 and 129-130: first execution and the choice of the branch
Execute ==
  /\ pc = "execute"
  /\ \/ \E rows \in RowSets :
          /\ calls' = Append(calls, Call("run", sql_query, TRUE, rows))
          /\ result' = Value(rows)
          /\ pc' = "finally"
          /\ UNCHANGED <<error_msg, exc, ui>>
     \/ \E e \in ExecErrors :
          /\ calls' = Append(calls, Call("run", sql_query, FALSE, e))
          /\ error_msg' = e
          /\ ui' = Append(ui, st("error", ExecErrPrefix \o e))
          /\ IF Recoverable(e)
             THEN pc' = "retry" /\ UNCHANGED exc
             ELSE Raise(e)
          /\ UNCHANGED result
  /\ UNCHANGED <<question, server, tunnel_up, schema, top_k_tables, res_text,
                 sql_query, retry_text, retry_sql, escaped>>
  /\ UNCHANGED <<environ, peer_up>>

\* Retry that fetches the schema text again before it asks the model
RetryRefetches ==
  /\ pc = "retry"
  /\ \E s \in Schemas :
       LET req == Request(follow_up(error_msg, s, question), s, top_k_tables)
           fetched == Append(calls, Call("get_table_info", <<>>, TRUE, s))
       IN
       /\ schema' = s
       /\ \/ \E retry_res \in RetryTexts :
               /\ retry_text' = retry_res
               /\ retry_sql' = ExtractRetry(retry_res)
               /\ calls' = Append(fetched, Call("invoke", req, TRUE, retry_res))
               /\ ui' = Append(ui, st("code", ExtractRetry(retry_res)))
               /\ pc' = "retry_execute"
               /\ UNCHANGED exc
          \/ /\ calls' = Append(fetched, Call("invoke", req, FALSE, ErrModel))
             /\ Raise(ErrModel)
             /\ UNCHANGED <<retry_text, retry_sql, ui>>
  /\ UNCHANGED <<question, server, tunnel_up, top_k_tables, res_text,
                 sql_query, error_msg, result, escaped>>
  /\ UNCHANGED <<environ, peer_up>>

\* lines 106-124: second synthesis and the extraction of the retried query
Retry ==
  /\ pc = "retry"
  /\ LET req == Request(follow_up(error_msg, schema, question), schema, top_k_tables) IN
     \/ \E retry_res \in RetryTexts :
          /\ retry_text' = retry_res
          /\ retry_sql' = ExtractRetry(retry_res)
          /\ calls' = Append(calls, Call("invoke", req, TRUE, retry_res))
          /\ ui' = Append(ui, st("code", ExtractRetry(retry_res)))
          /\ pc' = "retry_execute"
          /\ UNCHANGED exc
     \/ /\ calls' = Append(calls, Call("invoke", req, FALSE, ErrModel))
        /\ Raise(ErrModel)
        /\ UNCHANGED <<retry_text, retry_sql, ui>>
  /\ UNCHANGED <<question, server, tunnel_up, schema, top_k_tables, res_text,
                 sql_query, error_msg, result, escaped>>
  /\ UNCHANGED <<environ, peer_up>>

\* RetryExecute that runs the retried query but returns nothing
RetryExecuteDropsResult ==
  /\ pc = "retry_execute"
  /\ \/ \E rows \in RowSets :
          /\ calls' = Append(calls, Call("run", retry_sql, TRUE, rows))
          /\ result' = None
          /\ pc' = "finally"
          /\ UNCHANGED exc
     \/ \E e \in ExecErrors :
          /\ calls' = Append(calls, Call("run", retry_sql, FALSE, e))
          /\ Raise(e)
          /\ UNCHANGED result
  /\ UNCHANGED <<question, server, tunnel_up, schema, top_k_tables, res_text,
                 sql_query, error_msg, retry_text, retry_sql, escaped, ui>>
  /\ UNCHANGED <<environ, peer_up>>

\* RetryExecute that goes round again on a recoverable message
RetryExecuteAgain ==
  /\ pc = "retry_execute"
  /\ \/ \E rows \in RowSets :
          /\ calls' = Append(calls, Call("run", retry_sql, TRUE, rows))
          /\ result' = Value(rows)
          /\ pc' = "finally"
          /\ UNCHANGED <<error_msg, exc>>
     \/ \E e \in ExecErrors :
          /\ calls' = Append(calls, Call("run", retry_sql, FALSE, e))
          /\ IF Recoverable(e)
             THEN error_msg' = e /\ pc' = "retry" /\ UNCHANGED exc
             ELSE Raise(e) /\ UNCHANGED error_msg
          /\ UNCHANGED result
  /\ UNCHANGED <<question, server, tunnel_up, schema, top_k_tables, res_text,
                 sql_query, retry_text, retry_sql, escaped, ui>>
  /\ UNCHANGED <<environ, peer_up>>

\* lines 126-127: the retried execution, outside any inner handler
RetryExecute ==
  /\ pc = "retry_execute"
  /\ \/ \E rows \in RowSets :
          /\ calls' = Append(calls, Call("run", retry_sql, TRUE, rows))
          /\ result' = Value(rows)
          /\ pc' = "finally"
          /\ UNCHANGED exc
     \/ \E e \in ExecErrors :
          /\ calls' = Append(calls, Call("run", retry_sql, FALSE, e))
          /\ Raise(e)
          /\ UNCHANGED result
  /\ UNCHANGED <<question, server, tunnel_up, schema, top_k_tables, res_text,
                 sql_query, error_msg, retry_text, retry_sql, escaped, ui>>
  /\ UNCHANGED <<environ, peer_up>>

\* ExceptHandler that reports the error and raises it again
ExceptHandlerReraises ==
  /\ pc = "except"
  /\ ui' = Append(ui, st("error", TopErrPrefix \o exc.msg))
  /\ pc' = "finally"
  /\ UNCHANGED <<question, server, tunnel_up, schema, top_k_tables, res_text,
                 sql_query, error_msg, retry_text, retry_sql, result, exc,
                 escaped, calls>>
  /\ UNCHANGED <<environ, peer_up>>

\* ExceptHandler that also stops the forwarder, which finally stops again
ExceptHandlerStops ==
  /\ pc = "except"
  /\ ui' = Append(ui, st("error", TopErrPrefix \o exc.msg))
  /\ result' = None
  /\ exc' = NoExc
  /\ pc' = "finally"
  /\ IF server # "None"
     THEN /\ calls' = Append(calls, Call("stop", <<>>, TRUE, <<>>))
          /\ tunnel_up' = FALSE
     ELSE UNCHANGED <<calls, tunnel_up>>
  /\ UNCHANGED <<question, server, schema, top_k_tables, res_text,
                 sql_query, error_msg, retry_text, retry_sql, escaped>>
  /\ UNCHANGED <<environ, peer_up>>

\* lines 132-134: except Exception as e
ExceptHandler ==
  /\ pc = "except"
  /\ ui' = Append(ui, st("error", TopErrPrefix \o exc.msg))
  /\ result' = None
  /\ exc' = NoExc
  /\ pc' = "finally"
  /\ UNCHANGED <<question, server, tunnel_up, schema, top_k_tables, res_text,
                 sql_query, error_msg, retry_text, retry_sql, escaped, calls>>
  /\ UNCHANGED <<environ, peer_up>>

\* Finally that stops the forwarder only when a result is returned
FinallyOnSuccessOnly ==
  /\ pc = "finally"
  /\ IF server # "None" /\ ~result.none
     THEN /\ calls' = Append(calls, Call("stop", <<>>, TRUE, <<>>))
          /\ tunnel_up' = FALSE
          /\ ui' = Append(ui, st("info", TunnelClosedText))
     ELSE UNCHANGED <<calls, tunnel_up, ui>>
  /\ escaped' = exc.raised
  /\ pc' = "returned"
  /\ UNCHANGED <<question, server, schema, top_k_tables, res_text, sql_query,
                 error_msg, retry_text, retry_sql, result, exc>>
  /\ UNCHANGED <<environ, peer_up>>

\* lines 136-139: finally, then the return (or the exception still in flight)
Finally ==
  /\ pc = "finally"
  /\ IF server # "None"
     THEN /\ calls' = Append(calls, Call("stop", <<>>, TRUE, <<>>))
          /\ tunnel_up' = FALSE
          /\ ui' = Append(ui, st("info", TunnelClosedText))
     ELSE UNCHANGED <<calls, tunnel_up, ui>>
  /\ escaped' = exc.raised
  /\ pc' = "returned"
  /\ UNCHANGED <<question, server, schema, top_k_tables, res_text, sql_query,
                 error_msg, retry_text, retry_sql, result, exc>>
  /\ UNCHANGED <<environ, peer_up>>

(***************************************************************************)
(* Another session running the same script: only its hold on the fixed     *)
(* local port 127.0.0.1:3307 matters here.                                 *)
(***************************************************************************)
\* lines 54-63 in the other session: its start() binds the port if it is free
PeerStart ==
  /\ ~peer_up
  /\ ~tunnel_up
  /\ peer_up' = TRUE
  /\ UNCHANGED <<pc, question, server, tunnel_up, schema, top_k_tables,
                 res_text, sql_query, error_msg, retry_text, retry_sql, result,
                 exc, escaped, ui, calls, environ>>

\* lines 136-139 in the other session: its stop() releases the port
PeerStop ==
  /\ peer_up
  /\ peer_up' = FALSE
  /\ UNCHANGED <<pc, question, server, tunnel_up, schema, top_k_tables,
                 res_text, sql_query, error_msg, retry_text, retry_sql, result,
                 exc, escaped, ui, calls, environ>>

Next ==
  \/ RunQuery
  \/ Present
  \/ Construct
  \/ Start
  \/ FetchSchema
  \/ ShowTables
  \/ Synthesize
  \/ Execute
  \/ Retry
  \/ RetryExecute
  \/ ExceptHandler
  \/ Finally
  \/ PeerStart
  \/ PeerStop

Spec == Init /\ [][Next]_vars

(***************************************************************************)
(* Vocabulary of the properties: what the record of calls says.            *)
(***************************************************************************)
Idx(op) == {i \in 1..Len(calls) : calls[i].op = op}
NumCalls(op) == Cardinality(Idx(op))
FirstCall(op) == calls[Min(Idx(op))]
LastCall(op) == calls[Max(Idx(op))]

\* server.start() succeeded in this run of dataBase
Opened == \E i \in Idx("start") : calls[i].ok
\* a synthesized query ran to completion
Succeeded == \E i \in Idx("run") : calls[i].ok
\* the first execution was made and failed
FirstRunFailed == Idx("run") # {} /\ ~FirstCall("run").ok
\* the message of an execution error names a missing column or table
NamesMissingObject(msg) == contains(msg, NeedleColumn) \/ contains(msg, NeedleExist)
\* the error elements shown, in order
ErrorsShown == {k \in 1..Len(ui) : ui[k].kind = "error"}
LastErrorShown == ui[Max(ErrorsShown)].text

\* the text holds an opening fence with the keyword, in any case, and a
\* closing fence after it
HasFence(s) ==
  \E i \in 1..Len(s) :
     /\ startswithIgnoreCase(s, i, FenceOpen)
     /\ \E j \in (i + Len(FenceOpen))..Len(s) : startswith(s, j, Ticks3)
\* the content between the first such opening fence and the next closing one
InnerContent(s) ==
  LET open == Min({i \in 1..Len(s) :
                     /\ startswithIgnoreCase(s, i, FenceOpen)
                     /\ \E j \in (i + Len(FenceOpen))..Len(s) : startswith(s, j, Ticks3)})
      close == Min({j \in (open + Len(FenceOpen))..Len(s) : startswith(s, j, Ticks3)})
  IN  SubSeq(s, open + Len(FenceOpen), close - 1)
\* backtick fences and the token sql removed, then trimmed
Cleaned(s) == strip(replace(replace(s, Ticks3), SqlToken))
\* one terminator appended unless the text ends with one
WithTerminator(s) == IF s # <<>> /\ s[Len(s)] = ";" THEN s ELSE s \o <<";">>
\* the first synthesis has just answered: sql_query is set and about to be run
InitialExtracted == pc = "execute"
\* the second synthesis answered, so that retry_sql is set
RetryExtracted == NumCalls("invoke") = 2 /\ LastCall("invoke").ok

(***************************************************************************)
(* C1: whenever dataBase has returned, the tunnel it opened is closed,     *)
(* whichever way it left: no state after the return has an open tunnel.    *)
(***************************************************************************)
TunnelClosedOnReturn == pc \in {"returned", "idle"} => ~tunnel_up

\* dataBase returned after the tunnel was opened and the retried execution failed
TunnelClosedOnReturnWitness ==
  /\ pc = "returned"
  /\ Opened
  /\ NumCalls("run") = 2
  /\ ~LastCall("run").ok
  /\ ~tunnel_up

(***************************************************************************)
(* C2: a second synthesis is made exactly when the first execution failed  *)
(* with a message holding "Unknown column" or "doesn't exist" in that      *)
(* case; a second execution only after a second synthesis; and after any   *)
(* other first failure there is one synthesis, one execution, no result,   *)
(* and the error shown is the original one.                                *)
(***************************************************************************)
RetryIffNamedError ==
  /\ NumCalls("invoke") = 2 =>
       FirstRunFailed /\ NamesMissingObject(FirstCall("run").out)
  /\ NumCalls("run") = 2 => NumCalls("invoke") = 2
  /\ pc = "returned" /\ FirstRunFailed /\ NamesMissingObject(FirstCall("run").out) =>
       NumCalls("invoke") = 2
  /\ pc = "returned" /\ FirstRunFailed /\ ~NamesMissingObject(FirstCall("run").out) =>
       /\ NumCalls("invoke") = 1
       /\ NumCalls("run") = 1
       /\ result = None
       /\ {ui[k].text : k \in ErrorsShown} =
            {ExecErrPrefix \o FirstCall("run").out, TopErrPrefix \o FirstCall("run").out}

\* the first execution failed with the lower-case message and nothing was retried
RetryIffNamedErrorWitness ==
  /\ pc = "returned"
  /\ FirstRunFailed
  /\ FirstCall("run").out = ErrLowerColumn
  /\ NumCalls("invoke") = 1

(***************************************************************************)
(* C3: at most two syntheses and two executions per run of dataBase; when  *)
(* the retried execution fails, whatever its message, its error is the one *)
(* shown last and no result is returned.                                   *)
(***************************************************************************)
AtMostOneRetry ==
  /\ NumCalls("invoke") <= 2
  /\ NumCalls("run") <= 2
  /\ pc = "returned" /\ NumCalls("run") = 2 /\ ~LastCall("run").ok =>
       /\ result = None
       /\ LastErrorShown = TopErrPrefix \o LastCall("run").out

\* the retried execution failed with a message that names a missing column
AtMostOneRetryWitness ==
  /\ pc = "returned"
  /\ NumCalls("run") = 2
  /\ ~LastCall("run").ok
  /\ LastCall("run").out = ErrUnknownColumn

(***************************************************************************)
(* C4: every synthesized query handed to db.run, first or retried, ends    *)
(* with the terminator ";".                                                *)
(***************************************************************************)
ExecutedQueriesTerminated ==
  \A i \in Idx("run") :
     calls[i].arg # <<>> /\ calls[i].arg[Len(calls[i].arg)] = ";"

\* both attempts ran, from answers that did not end with the terminator
ExecutedQueriesTerminatedWitness ==
  /\ NumCalls("run") = 2
  /\ res_text = ScenarioFenced
  /\ retry_text = ScenarioPlain

(***************************************************************************)
(* C5: no exception leaves dataBase; a request that ends without a         *)
(* successful execution shows an error and returns None.                   *)
(***************************************************************************)
NoExceptionEscapes ==
  /\ ~escaped
  /\ pc = "returned" /\ ~Succeeded =>
       /\ result = None
       /\ ErrorsShown # {}
       /\ ~exc.raised

\* the schema fetch failed and dataBase returned None with an error shown
NoExceptionEscapesWitness ==
  /\ pc = "returned"
  /\ Idx("get_table_info") # {}
  /\ ~LastCall("get_table_info").ok
  /\ result = None
  /\ LastErrorShown = TopErrPrefix \o ErrAccess

(***************************************************************************)
(* C6 as stated: server.stop() is called exactly once in every run of      *)
(* dataBase.                                                               *)
(***************************************************************************)
CloseExactlyOncePerQuestion == pc = "returned" => NumCalls("stop") = 1

(***************************************************************************)
(* C6 as amended: server.stop() is called at most once in a run of         *)
(* dataBase, and exactly once in every run whose tunnel was opened.        *)
(***************************************************************************)
CloseOncePerOpenedTunnel ==
  /\ NumCalls("stop") <= 1
  /\ pc = "returned" /\ Opened => NumCalls("stop") = 1

\* the tunnel was opened, the request failed after a retry, one stop was made
CloseOncePerOpenedTunnelWitness ==
  /\ pc = "returned"
  /\ Opened
  /\ NumCalls("invoke") = 2
  /\ ~Succeeded
  /\ NumCalls("stop") = 1

(***************************************************************************)
(* C7: when the tunnel could not be opened, the error is shown, nothing    *)
(* is fetched, synthesized or executed, the tunnel is not up, and          *)
(* server.stop() is not called.                                            *)
(***************************************************************************)
NoCloseAfterFailedOpen ==
  pc = "returned" /\ ~Opened =>
    /\ ErrorsShown # {}
    /\ result = None
    /\ \A i \in 1..Len(calls) : calls[i].op \in {"start", "stop"} /\ ~calls[i].up
    /\ ~tunnel_up
    /\ NumCalls("stop") = 0

(***************************************************************************)
(* C8 as stated: from an answer with a fenced sql block, the query of the  *)
(* initial attempt is the trimmed content of the first block with the      *)
(* fences and the token sql removed, and it ends with exactly one ";".     *)
(***************************************************************************)
FencedQueryHasOneTerminator ==
  InitialExtracted /\ HasFence(res_text) =>
    /\ sql_query = WithTerminator(Cleaned(strip(InnerContent(res_text))))
    /\ Len(sql_query) >= 1 /\ sql_query[Len(sql_query)] = ";"
    /\ Len(sql_query) >= 2 => sql_query[Len(sql_query) - 1] # ";"

(***************************************************************************)
(* C8 as amended: from an answer with a fenced sql block, the query of the *)
(* initial attempt is the trimmed content of the first block with the      *)
(* fences and the token sql removed, with one ";" appended unless it       *)
(* already ends with ";" (terminators already there are all kept).         *)
(***************************************************************************)
FencedQueryExtracted ==
  InitialExtracted /\ HasFence(res_text) =>
    /\ sql_query = WithTerminator(Cleaned(strip(InnerContent(res_text))))
    /\ sql_query[Len(sql_query)] = ";"
    /\ res_text = ScenarioFenced => sql_query = ScenarioFencedSql

\* a block fenced with the keyword in capitals, inside prose, was extracted
FencedQueryExtractedWitness ==
  /\ pc = "execute"
  /\ res_text = ProseFenced
  /\ HasFence(res_text)

(***************************************************************************)
(* C9: from an answer without a fenced block, the query of the initial     *)
(* attempt is the whole answer with the fences and the token sql removed,  *)
(* trimmed, with ";" appended exactly when it does not end with ";".       *)
(***************************************************************************)
PlainQueryExtracted ==
  InitialExtracted /\ ~HasFence(res_text) =>
    /\ sql_query = WithTerminator(Cleaned(res_text))
    /\ res_text = ScenarioPlain => sql_query = ScenarioPlainSql

\* an answer without a fence that holds the token sql was extracted
PlainQueryExtractedWitness ==
  /\ pc = "execute"
  /\ ~HasFence(res_text)
  /\ contains(res_text, SqlToken)
  /\ ~contains(sql_query, SqlToken)

(***************************************************************************)
(* C10: the query of the retry attempt is what the extraction of the       *)
(* initial attempt gives for the same answer.                              *)
(***************************************************************************)
RetryParsedAsInitial ==
  RetryExtracted => retry_sql = ExtractInitial(retry_text)

(***************************************************************************)
(* C11: a failed table listing is recovered: the table list is the         *)
(* sentinel "All database tables", no error is shown for it, and the       *)
(* synthesis is asked next, with the sentinel as its table list; a failed  *)
(* schema text fetch is not recovered: nothing is synthesized or executed  *)
(* and the request returns None with the error shown.                      *)
(***************************************************************************)
ListingFailed == Idx("show_tables") # {} /\ ~FirstCall("show_tables").ok
SchemaFetchFailed == Idx("get_table_info") # {} /\ ~FirstCall("get_table_info").ok

ListingFailureRecovered ==
  /\ ListingFailed =>
       /\ top_k_tables = Sentinel
       /\ \A k \in ErrorsShown : ui[k].text # TopErrPrefix \o FirstCall("show_tables").out
       /\ pc = "synth" => ErrorsShown = {} /\ ~exc.raised
       /\ \A i \in Idx("invoke") : calls[i].arg.top_k = Sentinel
       /\ pc = "returned" => Idx("invoke") # {}
  /\ SchemaFetchFailed =>
       /\ Idx("show_tables") = {} /\ Idx("invoke") = {} /\ Idx("run") = {}
       /\ pc = "returned" =>
            result = None /\ LastErrorShown = TopErrPrefix \o FirstCall("get_table_info").out

\* the listing failed and the query synthesized after it ran and returned rows
ListingFailureRecoveredWitness ==
  /\ pc = "returned"
  /\ ListingFailed
  /\ NumCalls("run") = 1
  /\ Succeeded
  /\ Truthy(result)
  /\ ErrorsShown = {}

(***************************************************************************)
(* C12: in a process whose environment lacks a required key, no tunnel     *)
(* open is attempted: server.start() is never called.                      *)
(***************************************************************************)
NoConnectionWithoutConfiguration ==
  environ # RequiredKeys => Idx("start") = {}

\* place of the i-th call in the pipeline: open, schema text, table listing,
\* synthesis, execution, second synthesis, second execution, teardown
Stage(i) ==
  LET op == calls[i].op
      nth == Cardinality({j \in 1..i : calls[j].op = op})
  IN  CASE op = "start" -> 1
        [] op = "get_table_info" -> 2
        [] op = "show_tables" -> 3
        [] op = "invoke" -> IF nth = 1 THEN 4 ELSE 6
        [] op = "run" -> IF nth = 1 THEN 5 ELSE 7
        [] op = "stop" -> 8
\* every call made belongs to a later stage than the calls before it
StagesInOrder == \A i, j \in 1..Len(calls) : i < j => Stage(i) < Stage(j)
\* the rows of the result are on the page
ResultPresented == \E k \in 1..Len(ui) : ui[k].kind = "write"

(***************************************************************************)
(* C13 as stated: the calls of a question follow the order open, schema,   *)
(* synthesis, execution, retry, and the teardown comes last, after the     *)
(* result has been presented: once the tunnel is torn down a result that   *)
(* is to be shown is on the page.                                          *)
(***************************************************************************)
TeardownAfterPresentation ==
  /\ StagesInOrder
  /\ NumCalls("stop") = 1 /\ Truthy(result) => ResultPresented

(***************************************************************************)
(* C13 as amended: the calls of a question follow the order open, schema,  *)
(* synthesis, execution, retry, teardown; errors are shown before the      *)
(* teardown, and the result is presented after it, once dataBase returned. *)
(***************************************************************************)
TeardownBeforePresentation ==
  /\ StagesInOrder
  /\ NumCalls("stop") = 1 /\ ~Succeeded => ErrorsShown # {}
  /\ ResultPresented =>
       /\ pc = "idle"
       /\ NumCalls("stop") = 1
       /\ calls[Len(calls)].op = "stop"
       /\ \E k \in 1..Len(ui) :
            /\ ui[k] = st("info", TunnelClosedText)
            /\ \A n \in 1..Len(ui) : ui[n].kind \in {"success", "write"} /\ ui[n].text # TunnelUpText => k < n

\* the rows of a retried query were presented
TeardownBeforePresentationWitness ==
  /\ ResultPresented
  /\ NumCalls("run") = 2
  /\ Len(calls) = 8

\* the texts of the current state the normalization is tried on
TerminatorInputs ==
  {res_text, retry_text, sql_query, retry_sql, strip(res_text), strip(retry_text)}
EndsWithTerminator(x) == x # <<>> /\ x[Len(x)] = ";"

(***************************************************************************)
(* C14: the terminator normalization leaves a text that ends with ";"      *)
(* unchanged, appends exactly one ";" to any other text, and applied       *)
(* twice gives what it gives applied once.                                 *)
(***************************************************************************)
TerminateIdempotent ==
  \A x \in TerminatorInputs :
     /\ EndsWithTerminator(x) => Terminate(x) = x
     /\ ~EndsWithTerminator(x) => Terminate(x) = x \o <<";">>
     /\ Terminate(Terminate(x)) = Terminate(x)

\* an answer that already ends with terminators was executed as it is, and
\* an answer without one was retried with one appended
TerminateIdempotentWitness ==
  /\ pc = "retry_execute"
  /\ EndsWithTerminator(strip(res_text))
  /\ sql_query = strip(res_text)
  /\ retry_text = ScenarioPlain
  /\ retry_sql = ScenarioPlainSql

RetryQuestionComposed ==
  NumCalls("invoke") = 2 =>
    /\ FirstCall("invoke").arg.question = question
    /\ LastCall("invoke").arg.question =
         FollowUpA \o FirstCall("run").out \o FollowUpB
           \o FirstCall("get_table_info").out \o FollowUpC \o question

\* the retry request was made after a missing-table error
RetryQuestionComposedWitness ==
  /\ pc = "retry_execute"
  /\ NumCalls("invoke") = 2
  /\ FirstCall("run").out = ErrNoTable
  /\ contains(LastCall("invoke").arg.question, ErrNoTable)

(***************************************************************************)
(* C17: the schema text and the table listing are fetched at most once in  *)
(* a run of dataBase and once before any synthesis; every synthesis        *)
(* request of the run, the retry included, carries the schema text that    *)
(* this run fetched and the same table list; a new question starts with    *)
(* nothing fetched.                                                        *)
(***************************************************************************)
SnapshotFetchedOnce ==
  /\ NumCalls("get_table_info") <= 1
  /\ NumCalls("show_tables") <= 1
  /\ \A i \in Idx("invoke") :
       /\ \E g \in Idx("get_table_info") :
            g < i /\ calls[g].ok /\ calls[i].arg.table_info = calls[g].out
       /\ \E t \in Idx("show_tables") :
            /\ t < i
            /\ ~calls[t].ok => calls[i].arg.top_k = Sentinel
            /\ calls[t].ok /\ calls[t].out = <<>> => calls[i].arg.top_k = <<>>
       /\ calls[i].arg.table_info = FirstCall("invoke").arg.table_info
       /\ calls[i].arg.top_k = FirstCall("invoke").arg.top_k
  /\ pc = "construct" => calls = <<>> /\ schema = <<>> /\ top_k_tables = <<>>

\* both requests of a retried question were made with one fetched snapshot
SnapshotFetchedOnceWitness ==
  /\ NumCalls("invoke") = 2
  /\ NumCalls("get_table_info") = 1
  /\ NumCalls("show_tables") = 1
  /\ LastCall("invoke").arg.table_info = FirstCall("get_table_info").out

\* the calls that go through the tunnel or depend on the connection
PipelineOps == {"get_table_info", "show_tables", "invoke", "run"}

(***************************************************************************)
(* C18: every schema fetch, table listing, synthesis and execution of a    *)
(* question is made while its tunnel is up: after a successful start and   *)
(* before the stop.                                                        *)
(***************************************************************************)
OperationsUnderTunnel ==
  \A i \in 1..Len(calls) :
     calls[i].op \in PipelineOps =>
       /\ calls[i].up
       /\ \E s \in Idx("start") : s < i /\ calls[s].ok
       /\ \A k \in Idx("stop") : i < k

\* a retried question ended: all its six operations ran between start and stop
OperationsUnderTunnelWitness ==
  /\ pc = "returned"
  /\ Cardinality({i \in 1..Len(calls) : calls[i].op \in PipelineOps}) = 6
  /\ NumCalls("stop") = 1
  /\ Succeeded

(***************************************************************************)
(* C19: what dataBase returns is the rows of the first execution when it   *)
(* succeeded (and then nothing was synthesized again), the rows of the     *)
(* retried execution when the first failed on a missing column or table    *)
(* and the retried one succeeded, and None in every other case.            *)
(***************************************************************************)
ResultIsLastExecution ==
  pc = "returned" =>
    IF Idx("run") # {} /\ FirstCall("run").ok
    THEN /\ result = [none |-> FALSE, value |-> FirstCall("run").out]
         /\ NumCalls("invoke") = 1
         /\ NumCalls("run") = 1
    ELSE IF NumCalls("run") = 2 /\ LastCall("run").ok
    THEN /\ result = [none |-> FALSE, value |-> LastCall("run").out]
         /\ NamesMissingObject(FirstCall("run").out)
    ELSE result = [none |-> TRUE, value |-> <<>>]

\* the first execution failed, the retried one returned rows, and they are the result
ResultIsLastExecutionWitness ==
  /\ pc = "returned"
  /\ NumCalls("run") = 2
  /\ ~FirstCall("run").ok
  /\ LastCall("run").ok
  /\ result.value = LastCall("run").out
  /\ result.value # <<>>

(***************************************************************************)
(* C20: with an empty or whitespace-only question the script shows the     *)
(* warning and does not call dataBase: nothing is opened, synthesized or   *)
(* executed; the warning is shown for no other question; and the success   *)
(* message is shown only when dataBase returned a non-empty result.        *)
(***************************************************************************)
BlankQuestionSkipsPipeline ==
  /\ strip(question) = <<>> =>
       /\ pc = "idle"
       /\ calls = <<>>
       /\ ~tunnel_up
       /\ result.none
       /\ ui \in {<<>>, <<[kind |-> "warning", text |-> WarnText]>>}
  /\ (\E k \in 1..Len(ui) : ui[k].kind = "warning") => strip(question) = <<>>
  /\ (\E k \in 1..Len(ui) : ui[k] = [kind |-> "success", text |-> DoneText]) =>
       /\ ~result.none
       /\ result.value # <<>>
       /\ Succeeded
       /\ LastCall("run").out = result.value

\* a question made of one space was answered with the warning alone
BlankQuestionSkipsPipelineWitness ==
  /\ question = <<" ">>
  /\ pc = "idle"
  /\ ui = <<[kind |-> "warning", text |-> WarnText]>>
  /\ calls = <<>>

=============================================================================
